---- MODULE Spec2Model ----
(***************************************************************************)
(* Model of cmd/handler-api.go: the apiConfig store (init and its          *)
(* accessors) and the maxClients admission gate.                           *)
(*                                                                         *)
(* Sizes are in MiB and durations in seconds.  Every memory quantity of    *)
(* init is a multiple of 1 MiB except the probed total, and                *)
(* floor(x / (b * MiB)) = floor(floor(x / MiB) / b), so the capacity       *)
(* computed in MiB equals the capacity computed in bytes.                  *)
(***************************************************************************)
EXTENDS Integers, Sequences, FiniteSets, TLC

(***************************************************************************)
(* Bounds of the model.                                                    *)
(***************************************************************************)
MaxReq == 2
MaxInits == 2

Requests == 1..MaxReq

(***************************************************************************)
(* Program constants.                                                      *)
(***************************************************************************)
\* the nil channel: the zero value of apiConfig.requestsPool
Nil == 0
\* 16 << 30 bytes, in MiB
DefaultTotalRAM == 16384
\* block sizes in MiB (declared elsewhere in package cmd)
writeBlockSize == 2
readBlockSize == 2
blockSizeV1 == 10

(***************************************************************************)
(* Inputs of init: api.Config values, the drive count, the number of       *)
(* host names of globalEndpoints and the outcome of sys.GetStats().        *)
(***************************************************************************)
RequestsMaxVals == {0, 1}
RequestsDeadlineVals == {1}
ClusterDeadlineVals == {0}
CorsVals == {<<"*">>}
ListQuorumVals == {3}
ExtendListLifeVals == {0}
Configs ==
    [RequestsMax : RequestsMaxVals, RequestsDeadline : RequestsDeadlineVals,
     ClusterDeadline : ClusterDeadlineVals, CorsAllowOrigin : CorsVals,
     ListQuorum : ListQuorumVals, ExtendListLife : ExtendListLifeVals]
\* the zero value of api.Config
ZeroConfig ==
    [RequestsMax |-> 0, RequestsDeadline |-> 0, ClusterDeadline |-> 0,
     CorsAllowOrigin |-> <<>>, ListQuorum |-> 0, ExtendListLife |-> 0]
DriveCounts == {1}
HostCounts == {0, 1, 2}
StatsVals == {[err |-> TRUE, TotalRAM |-> 0], [err |-> FALSE, TotalRAM |-> 20],
              [err |-> FALSE, TotalRAM |-> 30]}
\* init reads the host names only when a maximum is configured and probes
\* the memory only when none is: the input it does not read is fixed
InitInputs ==
    {in \in Configs \X DriveCounts \X HostCounts \X StatsVals :
        IF in[1].RequestsMax <= 0 THEN in[3] = 0 ELSE in[4].err}

VARIABLES
    t,          \* globalAPIConfig: the apiConfig fields
    mu,         \* t.mu: "free", or "W" while init holds the write lock
    chans,      \* the channels made so far: <<[cap, len], ...>>
    initCfg,    \* the part of init's cfg argument that lines 75-77 still
                \* read, while init holds the lock; zero outside a call
    nInits,     \* number of init calls started
    req,        \* per request: position in maxClients' closure and its locals
    call,       \* history: the arguments of the latest init call, what it
                \* read from its collaborators and the capacity it computed
    stored,     \* history: the (pool, deadline) pairs apiConfig held when
                \* no init call was in progress
    ret,        \* the value the latest accessor call returned
    held        \* history, per request: whether every token of its pool
                \* was held at each moment from its snapshot to its timer

\* the variables of the program and the ones that record its history
aux == <<call, stored, ret, held>>

vars == <<t, mu, chans, initCfg, nInits, req, call, stored, ret, held>>

(***************************************************************************)
(* Channels.                                                               *)
(***************************************************************************)
\* cap(ch): 0 for the nil channel
Cap(ch) == IF ch = Nil THEN 0 ELSE chans[ch].cap

\* len(ch)
ChanLen(ch) == IF ch = Nil THEN 0 ELSE chans[ch].len

\* make(chan struct{}, n)
MakeChan(n) == [cap |-> n, len |-> 0]

(***************************************************************************)
(* apiConfig.init                                                          *)
(***************************************************************************)
\* variant that keeps the zero total a failed probe leaves behind
TotalRAM_NoFallback(stats) == stats.TotalRAM

\* the total memory the sizing formula uses
TotalRAM(stats) == IF stats.err THEN DefaultTotalRAM ELSE stats.TotalRAM

\* the memory one request is assumed to need
RamPerRequest(setDriveCount) ==
    setDriveCount * (writeBlockSize + readBlockSize) + blockSizeV1 * 2

\* variant of lines 49-66 that does not divide by the number of hosts
MaxPerNode_NoDivision(cfg, setDriveCount, hosts, stats) ==
    IF cfg.RequestsMax <= 0
    THEN TotalRAM(stats) \div RamPerRequest(setDriveCount)
    ELSE cfg.RequestsMax

\* lines 49-66: the desired capacity per node
MaxPerNode(cfg, setDriveCount, hosts, stats) ==
    IF cfg.RequestsMax <= 0
    THEN TotalRAM(stats) \div RamPerRequest(setDriveCount)
    ELSE IF hosts > 0 THEN cfg.RequestsMax \div hosts ELSE cfg.RequestsMax

\* variants of line 67 with a wrong comparison
NeedsReplace_Always(curCap, newCap) == TRUE

NeedsReplace_NotEqual(curCap, newCap) == curCap # newCap

NeedsReplace_OrEqual(curCap, newCap) == curCap <= newCap

\* line 67: the condition under which init replaces the pool
NeedsReplace(curCap, newCap) == curCap < newCap

\* what lines 75-77 read of cfg (cfg.GetListQuorum() is taken as given)
Rest(cfg) ==
    [RequestsDeadline |-> cfg.RequestsDeadline, ListQuorum |-> cfg.ListQuorum,
     ExtendListLife |-> cfg.ExtendListLife]

\* variant of lines 42-74 that removes the pool when the computed capacity
\* is zero
InitBegin_ClearsOnZero(cfg, setDriveCount, hosts, stats) ==
    /\ mu = "free"
    /\ nInits < MaxInits
    /\ LET n == MaxPerNode(cfg, setDriveCount, hosts, stats)
           replace == NeedsReplace(Cap(t.requestsPool), n)
       IN  /\ chans' = IF replace THEN Append(chans, MakeChan(n)) ELSE chans
           /\ t' = [t EXCEPT !.clusterDeadline = cfg.ClusterDeadline,
                             !.corsAllowOrigins = cfg.CorsAllowOrigin,
                             !.setDriveCount = setDriveCount,
                             !.requestsPool =
                                 IF replace THEN Len(chans) + 1
                                 ELSE IF n = 0 THEN Nil ELSE @]
    /\ mu' = "W"
    /\ initCfg' = Rest(cfg)
    /\ nInits' = nInits + 1
    /\ UNCHANGED req

\* lines 42-74: take the write lock, store the first fields, size the pool
InitBegin(cfg, setDriveCount, hosts, stats) ==
    /\ mu = "free"
    /\ nInits < MaxInits
    /\ LET n == MaxPerNode(cfg, setDriveCount, hosts, stats)
           replace == NeedsReplace(Cap(t.requestsPool), n)
       IN  /\ chans' = IF replace THEN Append(chans, MakeChan(n)) ELSE chans
           /\ t' = [t EXCEPT !.clusterDeadline = cfg.ClusterDeadline,
                             !.corsAllowOrigins = cfg.CorsAllowOrigin,
                             !.setDriveCount = setDriveCount,
                             !.requestsPool =
                                 IF replace THEN Len(chans) + 1 ELSE @]
    /\ mu' = "W"
    /\ initCfg' = Rest(cfg)
    /\ nInits' = nInits + 1
    /\ UNCHANGED req

\* lines 75-78: store the remaining fields, release the write lock
InitEnd ==
    /\ mu = "W"
    /\ t' = [t EXCEPT !.requestsDeadline = initCfg.RequestsDeadline,
                      !.listQuorum = initCfg.ListQuorum,
                      !.extendListLife = initCfg.ExtendListLife]
    /\ mu' = "free"
    /\ initCfg' = Rest(ZeroConfig)
    /\ UNCHANGED <<chans, nInits, req>>

(***************************************************************************)
(* Accessors                                                               *)
(***************************************************************************)
\* getRequestsPool: the pool and its deadline, read under one read lock
getRequestsPool ==
    IF t.requestsPool = Nil THEN <<Nil, 0>>
    ELSE <<t.requestsPool, t.requestsDeadline>>

\* getListQuorum, getSetDriveCount, getExtendListLife: the stored field
getListQuorum == t.listQuorum

getSetDriveCount == t.setDriveCount

getExtendListLife == t.extendListLife

\* 10 * time.Second
DefaultClusterDeadline == 10

\* variant of getClusterDeadline without the default
getClusterDeadline_NoDefault == t.clusterDeadline

\* getClusterDeadline: the stored deadline, or the default when it is zero
getClusterDeadline ==
    IF t.clusterDeadline = 0 THEN DefaultClusterDeadline
    ELSE t.clusterDeadline

\* A slice value is its elements and the array that holds them.  The array
\* of t.corsAllowOrigins is the one the latest init call was given (array
\* nInits); make() gives an array nothing else refers to.
OwnArray == -1

\* variant of getCorsAllowOrigins that returns the stored slice itself
getCorsAllowOrigins_NoCopy ==
    [elems |-> t.corsAllowOrigins, array |-> nInits]

\* getCorsAllowOrigins: make a slice of the same length and copy into it
getCorsAllowOrigins ==
    [elems |-> [i \in 1..Len(t.corsAllowOrigins) |-> t.corsAllowOrigins[i]],
     array |-> OwnArray]

(***************************************************************************)
(* maxClients: the closure run for each request.                           *)
(*   Idle      the request has not reached the gate                        *)
(*   Select    lines 135-142 done, about to execute the select             *)
(*   Blocked   parked in the select, no case was ready                     *)
(*   Admitted  the send case was taken: the request holds a token          *)
(*   Running   inside f.ServeHTTP                                          *)
(*   Released  the handler exited and the deferred receive ran             *)
(*   Returned  the handler exited, no pool (line 138)                      *)
(*   TimerCase the timer case was taken, nothing written yet               *)
(*   TimedOut  the error response is written (line 153)                    *)
(*   CtxCase   the Done case was taken                                     *)
(*   Cancelled returned from the Done case (line 155)                      *)
(***************************************************************************)
Terminal == {"Released", "Returned", "TimedOut", "Cancelled"}

NewRequest ==
    [pc |-> "Idle", pool |-> Nil, deadline |-> 0,
     timerFired |-> FALSE, ctxDone |-> FALSE,
     handlerCalls |-> 0, errWrites |-> 0, acquired |-> 0, released |-> 0,
     exit |-> "none"]

\* variant of lines 135-142 without the nil check of line 136
EnterGate_NoNilCheck(rec, snap) ==
    [rec EXCEPT !.pc = "Select", !.pool = snap[1], !.deadline = snap[2]]

\* lines 135-142: snapshot the pool and deadline; with no pool call the
\* handler directly, otherwise start the deadline timer
EnterGate(rec, snap) ==
    IF snap[1] = Nil
    THEN [rec EXCEPT !.pc = "Running", !.handlerCalls = @ + 1]
    ELSE [rec EXCEPT !.pc = "Select", !.pool = snap[1], !.deadline = snap[2]]

\* variant of the snapshot that does not take the read lock
Enter_NoLock(r, cancelled) ==
    /\ req[r].pc = "Idle"
    /\ \A q \in Requests : q < r => req[q].pc # "Idle"
    /\ req' = [req EXCEPT
                  ![r] = EnterGate([@ EXCEPT !.ctxDone = cancelled],
                                   getRequestsPool)]
    /\ UNCHANGED <<t, mu, chans, initCfg, nInits>>

\* Request r reaches the gate; requests are numbered in the order in which
\* they reach it, and a request may arrive with its context already
\* cancelled.  getRequestsPool takes the read lock, so it waits for init
\* to unlock.
Enter(r, cancelled) ==
    /\ req[r].pc = "Idle"
    /\ \A q \in Requests : q < r => req[q].pc # "Idle"
    /\ mu = "free"
    /\ req' = [req EXCEPT
                  ![r] = EnterGate([@ EXCEPT !.ctxDone = cancelled],
                                   getRequestsPool)]
    /\ UNCHANGED <<t, mu, chans, initCfg, nInits>>

\* variant of the send that admits one request more than the capacity
SendReady_OneMore(ch) == ch # Nil /\ ChanLen(ch) <= Cap(ch)

\* a send on a buffered channel is ready while the buffer has room; no
\* receiver ever waits on a pool (the only receive is the deferred one)
SendReady(ch) == ChanLen(ch) < Cap(ch)

\* line 144: the cases of the select that can proceed
ReadyCases(rec) ==
    (IF SendReady(rec.pool) THEN {"send"} ELSE {})
    \cup (IF rec.timerFired THEN {"timer"} ELSE {})
    \cup (IF rec.ctxDone THEN {"ctx"} ELSE {})

\* variant in which the timer case calls the handler
TakeCase_TimerServes(rec, c) ==
    CASE c = "send"  -> [rec EXCEPT !.pc = "Admitted", !.acquired = @ + 1]
      [] c = "timer" -> [rec EXCEPT !.pc = "Running", !.handlerCalls = @ + 1]
      [] c = "ctx"   -> [rec EXCEPT !.pc = "CtxCase"]

\* the request's state once case c of the select is taken
TakeCase(rec, c) ==
    CASE c = "send"  -> [rec EXCEPT !.pc = "Admitted", !.acquired = @ + 1]
      [] c = "timer" -> [rec EXCEPT !.pc = "TimerCase"]
      [] c = "ctx"   -> [rec EXCEPT !.pc = "CtxCase"]

\* variant of line 144 that sends on the pool installed now instead of the
\* pool of the snapshot
SelectEval_CurrentPool(r) ==
    /\ req[r].pc = "Select"
    /\ LET now == [req[r] EXCEPT !.pool = t.requestsPool]
       IN  IF ReadyCases(now) = {}
           THEN /\ req' = [req EXCEPT ![r].pc = "Blocked"]
                /\ chans' = chans
           ELSE \E c \in ReadyCases(now) :
                /\ req' = [req EXCEPT ![r] = TakeCase(@, c)]
                /\ chans' = IF c = "send"
                            THEN [chans EXCEPT ![now.pool].len = @ + 1]
                            ELSE chans
    /\ UNCHANGED <<t, mu, initCfg, nInits>>

\* line 144: the select takes one of the ready cases, any of them, or
\* parks the goroutine when none is ready
SelectEval(r) ==
    /\ req[r].pc = "Select"
    /\ IF ReadyCases(req[r]) = {}
       THEN /\ req' = [req EXCEPT ![r].pc = "Blocked"]
            /\ chans' = chans
       ELSE \E c \in ReadyCases(req[r]) :
            /\ req' = [req EXCEPT ![r] = TakeCase(@, c)]
            /\ chans' = IF c = "send"
                        THEN [chans EXCEPT ![req[r].pool].len = @ + 1]
                        ELSE chans
    /\ UNCHANGED <<t, mu, initCfg, nInits>>

\* variant in which a parked request polls only for its token
OnEvent_KeepWaiting(rec, c) == rec

\* an event on a channel of a parked select completes the select with that
\* case; an event before the select is executed only makes the case ready
OnEvent(rec, c) ==
    IF rec.pc = "Blocked" THEN TakeCase(rec, c) ELSE rec

\* deadlineTimer fires (running from line 141 until the deferred Stop)
TimerFire(r) ==
    /\ req[r].pc \in {"Select", "Blocked"}
    /\ ~req[r].timerFired
    /\ req' = [req EXCEPT ![r] = OnEvent([@ EXCEPT !.timerFired = TRUE], "timer")]
    /\ UNCHANGED <<t, mu, chans, initCfg, nInits>>

\* the caller cancels the request's context
CtxCancel(r) ==
    /\ req[r].pc \in {"Select", "Blocked"}
    /\ ~req[r].ctxDone
    /\ req' = [req EXCEPT ![r] = OnEvent([@ EXCEPT !.ctxDone = TRUE], "ctx")]
    /\ UNCHANGED <<t, mu, chans, initCfg, nInits>>

\* lines 146-147: register the deferred receive and call the handler
ServeAdmitted(rec) == [rec EXCEPT !.pc = "Running", !.handlerCalls = @ + 1]

StartHandler(r) ==
    /\ req[r].pc = "Admitted"
    /\ req' = [req EXCEPT ![r] = ServeAdmitted(@)]
    /\ UNCHANGED <<t, mu, chans, initCfg, nInits>>

\* variant of line 146 with the receive after the call instead of deferred
ReleaseRuns_NotDeferred(how) == how = "return"

\* line 146: the receive is deferred, so it runs however the handler exits
ReleaseRuns(how) == how \in {"return", "panic"}

\* variant of line 146 that receives from the pool installed now
ReleaseChan_Current(rec) == t.requestsPool

\* the channel a request gives its token back to
ReleaseChan(rec) == rec.pool

\* the requests parked on a send to channel ch
Parked(ch) == {r \in Requests : req[r].pc = "Blocked" /\ req[r].pool = ch}

\* the handler exits by returning or by panicking.  With a pool the
\* deferred receive takes one token out of the channel; when a sender is
\* parked on the channel its token goes into the freed slot at once and
\* its select completes with the send case.
HandlerExit(r, how) ==
    /\ req[r].pc = "Running"
    /\ IF req[r].pool = Nil
       THEN /\ req' = [req EXCEPT ![r].pc = "Returned", ![r].exit = how]
            /\ chans' = chans
       ELSE IF ~ReleaseRuns(how)
       THEN /\ req' = [req EXCEPT ![r].pc = "Released", ![r].exit = how]
            /\ chans' = chans
       ELSE LET ch == ReleaseChan(req[r])
                me == [req[r] EXCEPT !.pc = "Released", !.exit = how,
                                     !.released = @ + 1]
            IN  /\ ChanLen(ch) > 0
                /\ IF Parked(ch) = {}
                   THEN /\ req' = [req EXCEPT ![r] = me]
                        /\ chans' = [chans EXCEPT ![ch].len = @ - 1]
                   ELSE \E s \in Parked(ch) :
                        /\ req' = [req EXCEPT ![r] = me,
                                              ![s] = TakeCase(@, "send")]
                        /\ chans' = chans
    /\ UNCHANGED <<t, mu, initCfg, nInits>>

\* variant of lines 150-153 without the return: the handler is called too
WriteMaxedOut_FallThrough(rec) ==
    [rec EXCEPT !.pc = "TimedOut", !.errWrites = @ + 1, !.handlerCalls = @ + 1]

\* variant of lines 150-153 that goes back to the select instead of
\* returning
WriteMaxedOut_Retry(rec) ==
    [rec EXCEPT !.pc = "Select", !.errWrites = 1, !.timerFired = FALSE]

\* lines 150-153: write the ErrOperationMaxedOut response and return
WriteMaxedOut(rec) == [rec EXCEPT !.pc = "TimedOut", !.errWrites = @ + 1]

\* variant in which the receive is deferred before the select, so that the
\* timeout path takes a token out of the pool as well
TimeoutReturn_Drains(r) ==
    /\ req[r].pc = "TimerCase"
    /\ ChanLen(req[r].pool) > 0
    /\ req' = [req EXCEPT ![r] = WriteMaxedOut(@)]
    /\ chans' = [chans EXCEPT ![req[r].pool].len = @ - 1]
    /\ UNCHANGED <<t, mu, initCfg, nInits>>

TimeoutReturn(r) ==
    /\ req[r].pc = "TimerCase"
    /\ req' = [req EXCEPT ![r] = WriteMaxedOut(@)]
    /\ UNCHANGED <<t, mu, chans, initCfg, nInits>>

\* variant of lines 154-155 that answers the cancelled request
ReturnSilently_Writes(rec) ==
    [rec EXCEPT !.pc = "Cancelled", !.errWrites = @ + 1]

\* lines 154-155: return without writing anything
ReturnSilently(rec) == [rec EXCEPT !.pc = "Cancelled"]

CancelReturn(r) ==
    /\ req[r].pc = "CtxCase"
    /\ req' = [req EXCEPT ![r] = ReturnSilently(@)]
    /\ UNCHANGED <<t, mu, chans, initCfg, nInits>>

(***************************************************************************)
(* Specification                                                           *)
(***************************************************************************)
\* no init call yet, no accessor call yet
NoCall ==
    [cfg |-> ZeroConfig, setDriveCount |-> 0, hosts |-> 0,
     stats |-> [err |-> FALSE, TotalRAM |-> 0], apiRequestsMaxPerNode |-> 0]

NoRet == [op |-> "none", val |-> 0, array |-> OwnArray, written |-> FALSE]

\* the zero value of apiConfig (globalAPIConfig before the first init)
Init ==
    /\ t = [requestsDeadline |-> 0, requestsPool |-> Nil,
            clusterDeadline |-> 0, listQuorum |-> 0, extendListLife |-> 0,
            corsAllowOrigins |-> <<>>, setDriveCount |-> 0]
    /\ mu = "free"
    /\ chans = <<>>
    /\ initCfg = Rest(ZeroConfig)
    /\ nInits = 0
    /\ req = [r \in Requests |-> NewRequest]
    /\ call = NoCall
    /\ stored = {<<Nil, 0>>}
    /\ ret = NoRet
    /\ held = [r \in Requests |-> "none"]

\* one step of request r's goroutine
RequestStep(r) ==
    \/ \E cancelled \in BOOLEAN : Enter(r, cancelled) /\ UNCHANGED aux
    \/ SelectEval(r) /\ UNCHANGED aux
    \/ StartHandler(r) /\ UNCHANGED aux
    \/ \E how \in {"return", "panic"} : HandlerExit(r, how) /\ UNCHANGED aux
    \/ TimeoutReturn(r) /\ UNCHANGED aux
    \/ CancelReturn(r) /\ UNCHANGED aux

Next ==
    \/ \E in \in InitInputs :
           InitBegin(in[1], in[2], in[3], in[4]) /\ UNCHANGED aux
    \/ InitEnd /\ UNCHANGED aux
    \/ \E r \in Requests : RequestStep(r)
    \/ \E r \in Requests : TimerFire(r) /\ UNCHANGED aux
    \/ \E r \in Requests : CtxCancel(r) /\ UNCHANGED aux

Spec == Init /\ [][Next]_vars

\* one step of request r once it has reached the gate, its timer included
GateStep(r) ==
    \/ SelectEval(r)
    \/ StartHandler(r)
    \/ \E how \in {"return", "panic"} : HandlerExit(r, how)
    \/ TimeoutReturn(r)
    \/ CancelReturn(r)
    \/ TimerFire(r)

\* the goroutine of a request that reached the gate keeps being scheduled,
\* its deadline timer fires and its handler exits
FairSpec ==
    Spec /\ \A r \in Requests : WF_vars(GateStep(r) /\ UNCHANGED aux)

(***************************************************************************)
(* The configuration store alone: init calls with inputs that differ in    *)
(* every field, and requests that only take their snapshot.  What each     *)
(* init call was given and what the store held between calls is recorded.  *)
(***************************************************************************)
WideConfigs ==
    {[RequestsMax |-> 0, RequestsDeadline |-> 1, ClusterDeadline |-> 0,
      CorsAllowOrigin |-> <<"*">>, ListQuorum |-> 3, ExtendListLife |-> 0],
     [RequestsMax |-> 1, RequestsDeadline |-> 2, ClusterDeadline |-> 5,
      CorsAllowOrigin |-> <<"a", "b">>, ListQuorum |-> 1, ExtendListLife |-> 7],
     [RequestsMax |-> 3, RequestsDeadline |-> 1, ClusterDeadline |-> 5,
      CorsAllowOrigin |-> <<>>, ListQuorum |-> 3, ExtendListLife |-> 7],
     [RequestsMax |-> -1, RequestsDeadline |-> 2, ClusterDeadline |-> 0,
      CorsAllowOrigin |-> <<"b", "a">>, ListQuorum |-> 1, ExtendListLife |-> 0]}
WideDriveCounts == {1, 2}
WideStatsVals == {[err |-> TRUE, TotalRAM |-> 0], [err |-> FALSE, TotalRAM |-> 50]}
\* every combination: also the inputs a call does not read
WideInputs == WideConfigs \X WideDriveCounts \X HostCounts \X WideStatsVals

\* lines 42-74, with the call's inputs and the capacity it computed recorded
RecordedInitBegin(cfg, setDriveCount, hosts, stats) ==
    /\ InitBegin(cfg, setDriveCount, hosts, stats)
    /\ call' = [cfg |-> cfg, setDriveCount |-> setDriveCount, hosts |-> hosts,
                stats |-> stats,
                apiRequestsMaxPerNode |->
                    MaxPerNode(cfg, setDriveCount, hosts, stats)]
    /\ UNCHANGED <<stored, ret, held>>

\* lines 75-78, with the pair the store holds after the call recorded
RecordedInitEnd ==
    /\ InitEnd
    /\ stored' = stored \cup {<<t'.requestsPool, t'.requestsDeadline>>}
    /\ UNCHANGED <<call, ret, held>>

\* a request reaches the gate and takes its snapshot (line 135)
Snapshot(r) ==
    /\ \E cancelled \in BOOLEAN : Enter(r, cancelled)
    /\ UNCHANGED aux

CfgNext ==
    \/ \E in \in WideInputs : RecordedInitBegin(in[1], in[2], in[3], in[4])
    \/ RecordedInitEnd
    \/ \E r \in Requests : Snapshot(r)

SpecCfg == Init /\ [][CfgNext]_vars

(***************************************************************************)
(* Reconfiguration under load: the gate with init calls that differ in     *)
(* every field and compute a capacity below, equal to or above the         *)
(* current one, and requests that are not cancelled.                       *)
(***************************************************************************)
\* maximum 1 on one node, maximum 3 on one node and on two: capacities 1,
\* 3 and 1, from configurations that differ in every other field
LoadInputs ==
    {in \in WideInputs :
        /\ in[1].RequestsMax > 0 /\ in[2] = 1 /\ in[4].err
        /\ in[3] \in (IF in[1].RequestsMax = 1 THEN {0} ELSE {0, 2})}

\* the clients of this scenario do not cancel their requests
LoadNext ==
    \/ \E in \in LoadInputs :
           InitBegin(in[1], in[2], in[3], in[4]) /\ UNCHANGED aux
    \/ InitEnd /\ UNCHANGED aux
    \/ \E r \in Requests : Enter(r, FALSE) /\ UNCHANGED aux
    \/ \E r \in Requests : SelectEval(r) /\ UNCHANGED aux
    \/ \E r \in Requests : StartHandler(r) /\ UNCHANGED aux
    \/ \E r \in Requests, how \in {"return", "panic"} :
           HandlerExit(r, how) /\ UNCHANGED aux
    \/ \E r \in Requests : TimeoutReturn(r) /\ UNCHANGED aux
    \/ \E r \in Requests : TimerFire(r) /\ UNCHANGED aux

SpecLoad == Init /\ [][LoadNext]_vars

(***************************************************************************)
(* A pool that is not reconfigured: every init call computes capacity 1    *)
(* or 0, so the pool of the first install stays.  For each request it is   *)
(* recorded whether all tokens of its pool were held from its snapshot on, *)
(* and where the request was when its timer fired.                         *)
(*   none           not at the gate yet                                    *)
(*   sofar          every token held at each moment so far, timer pending  *)
(*   broken         a token was free at some moment before the timer fired *)
(*   firedInSelect  every token held until the timer fired, and since, up  *)
(*                  to now or to the request executing its select          *)
(*   freedInSelect  every token held until the timer fired, and one was    *)
(*                  free before the request executed its select            *)
(*   firedParked    every token held until the timer fired; the request    *)
(*                  was parked in its select                               *)
(***************************************************************************)
HoldInputs == {in \in InitInputs : in[1].RequestsMax > 0}

\* every token of the pool of request r is held, in the state after the step
FullAfter(r) ==
    LET p == req'[r].pool
    IN  p # Nil /\ chans'[p].len = chans'[p].cap

HeldAfter(r) ==
    IF req'[r].pc = "Idle" THEN "none"
    ELSE IF req[r].pc = "Idle"
    THEN IF FullAfter(r) THEN "sofar" ELSE "broken"
    ELSE IF held[r] = "firedInSelect"
    THEN IF req'[r].pc = "Select" /\ ~FullAfter(r) THEN "freedInSelect"
         ELSE held[r]
    ELSE IF held[r] # "sofar" THEN held[r]
    ELSE IF ~req[r].timerFired /\ req'[r].timerFired
    THEN IF req[r].pc = "Blocked" THEN "firedParked" ELSE "firedInSelect"
    ELSE IF FullAfter(r) THEN "sofar" ELSE "broken"

TrackHeld ==
    /\ held' = [r \in Requests |-> HeldAfter(r)]
    /\ UNCHANGED <<call, stored, ret>>

HoldNext ==
    \/ \E in \in HoldInputs :
           InitBegin(in[1], in[2], in[3], in[4]) /\ TrackHeld
    \/ InitEnd /\ TrackHeld
    \/ \E r \in Requests, cancelled \in BOOLEAN :
           Enter(r, cancelled) /\ TrackHeld
    \/ \E r \in Requests : SelectEval(r) /\ TrackHeld
    \/ \E r \in Requests : StartHandler(r) /\ TrackHeld
    \/ \E r \in Requests, how \in {"return", "panic"} :
           HandlerExit(r, how) /\ TrackHeld
    \/ \E r \in Requests : TimeoutReturn(r) /\ TrackHeld
    \/ \E r \in Requests : CancelReturn(r) /\ TrackHeld
    \/ \E r \in Requests : TimerFire(r) /\ TrackHeld
    \/ \E r \in Requests : CtxCancel(r) /\ TrackHeld

SpecHold == Init /\ [][HoldNext]_vars

(***************************************************************************)
(* The accessors: init calls, accessor calls under the read lock, and a    *)
(* caller that writes to the slice getCorsAllowOrigins returned to it.     *)
(***************************************************************************)
ScalarAccessors ==
    {"getListQuorum", "getSetDriveCount", "getExtendListLife",
     "getClusterDeadline"}

\* what accessor op returns
Result(op) ==
    CASE op = "getListQuorum" -> getListQuorum
      [] op = "getSetDriveCount" -> getSetDriveCount
      [] op = "getExtendListLife" -> getExtendListLife
      [] op = "getClusterDeadline" -> getClusterDeadline

\* a call of one of the scalar accessors (RLock, read, RUnlock)
Read(op) ==
    /\ mu = "free"
    /\ ret' = [op |-> op, val |-> Result(op), array |-> OwnArray,
               written |-> FALSE]
    /\ UNCHANGED <<t, mu, chans, initCfg, nInits, req, call, stored, held>>

\* a call of getCorsAllowOrigins
ReadCors ==
    /\ mu = "free"
    /\ ret' = [op |-> "getCorsAllowOrigins", val |-> getCorsAllowOrigins.elems,
               array |-> getCorsAllowOrigins.array, written |-> FALSE]
    /\ UNCHANGED <<t, mu, chans, initCfg, nInits, req, call, stored, held>>

\* the caller assigns to element i of the slice it was returned: the write
\* goes to the slice's array, and so to every slice that shares it
WriteReturned(i, origin) ==
    /\ ret.op = "getCorsAllowOrigins"
    /\ i \in 1..Len(ret.val)
    /\ ret.val[i] # origin
    /\ ret' = [ret EXCEPT !.val[i] = origin, !.written = TRUE]
    /\ t' = IF ret.array = nInits
            THEN [t EXCEPT !.corsAllowOrigins[i] = origin]
            ELSE t
    /\ UNCHANGED <<mu, chans, initCfg, nInits, req, call, stored, held>>

AccNext ==
    \/ \E in \in WideInputs : RecordedInitBegin(in[1], in[2], in[3], in[4])
    \/ RecordedInitEnd
    \/ \E op \in ScalarAccessors : Read(op)
    \/ ReadCors
    \/ \E i \in 1..2 : WriteReturned(i, "x")

SpecAcc == Init /\ [][AccNext]_vars

(***************************************************************************)
(* Properties                                                              *)
(***************************************************************************)
\* the requests whose handler is running
RunningReqs == {r \in Requests : req[r].pc = "Running"}

\* the requests whose handler is running and that were admitted through ch
RunningVia(ch) == {r \in RunningReqs : req[r].pool = ch}

\* C1 as stated: whenever a pool is installed, the number of handlers
\* running through maxClients is at most the capacity of the installed pool.
C1_RunningWithinInstalledCap ==
    t.requestsPool # Nil => Cardinality(RunningReqs) <= Cap(t.requestsPool)

\* C1 amended: whenever a pool is installed, the number of running handlers
\* that were admitted through the installed pool is at most its capacity
\* (handlers started with no pool or through an earlier pool run on top).
C1_AdmittedViaInstalledWithinCap ==
    t.requestsPool # Nil =>
        Cardinality(RunningVia(t.requestsPool)) <= Cap(t.requestsPool)

\* the installed pool is used to its capacity while a handler admitted
\* before the pool was installed or grown is still running
C1_Witness ==
    /\ t.requestsPool # Nil
    /\ Cardinality(RunningVia(t.requestsPool)) = Cap(t.requestsPool)
    /\ Cardinality(RunningReqs) > Cap(t.requestsPool)

\* the requests that snapshotted a pool
Gated == {r \in Requests : req[r].pool # Nil}

\* the number of the three outcomes that the effects of request r show
Outcomes(r) ==
    (IF req[r].handlerCalls > 0 THEN 1 ELSE 0)
    + (IF req[r].errWrites > 0 THEN 1 ELSE 0)
    + (IF req[r].pc = "Cancelled" THEN 1 ELSE 0)

\* C2: a request that entered the gate with a pool present takes at most
\* one of the outcomes Admitted (handler invoked), TimedOut (error response
\* written), Cancelled, and exactly one once it is finished; the gate
\* writes at most one error response and calls the handler at most once.
C2_ExactlyOneOutcome ==
    \A r \in Gated :
        /\ req[r].errWrites <= 1
        /\ req[r].handlerCalls <= 1
        /\ Outcomes(r) <= 1
        /\ req[r].pc \in Terminal => Outcomes(r) = 1
        /\ req[r].pc = "Released" <=> (req[r].pc \in Terminal /\ req[r].handlerCalls = 1)
        /\ req[r].pc = "TimedOut" <=> req[r].errWrites = 1

\* one request finished admitted and another finished timed out
C2_Witness ==
    \E r, q \in Gated :
        /\ req[r].pc = "Released" /\ req[r].handlerCalls = 1
        /\ req[q].pc = "TimedOut" /\ req[q].errWrites = 1

\* C3: every acquired token is released exactly once, however the handler
\* exits: a request never releases more than it acquired, a finished
\* request released what it acquired, and once no request is in the gate
\* no channel holds a token.
C3_TokenReleasedOnce ==
    /\ \A r \in Requests :
        /\ req[r].released <= req[r].acquired
        /\ req[r].acquired <= 1
        /\ req[r].pc \in Terminal => req[r].released = req[r].acquired
    /\ (\A r \in Requests : req[r].pc \in Terminal \cup {"Idle"}) =>
           \A ch \in 1..Len(chans) : chans[ch].len = 0

\* every request is finished; one handler panicked and one returned, both
\* holding a token
C3_Witness ==
    /\ \A r \in Requests : req[r].pc \in Terminal
    /\ \E r, q \in Requests :
        /\ req[r].exit = "panic" /\ req[r].acquired = 1
        /\ req[q].exit = "return" /\ req[q].acquired = 1

\* C4: the capacity of the installed pool never decreases, and the pool is
\* replaced only by one of strictly greater capacity.
C4_CapacityNeverDecreases ==
    [][/\ Cap(t.requestsPool)' >= Cap(t.requestsPool)
       /\ t'.requestsPool # t.requestsPool =>
              Cap(t.requestsPool)' > Cap(t.requestsPool)]_vars

\* a second init is in progress and left in place the pool that the first
\* one installed and that a request has since snapshotted
C4_Witness ==
    /\ mu = "W"
    /\ nInits = 2
    /\ Len(chans) = 1
    /\ t.requestsPool = 1
    /\ \E r \in Requests : req[r].pool = 1

\* the step is request r passing lines 135-139
Entering(r) == req[r].pc = "Idle" /\ req'[r].pc # "Idle"

\* the inputs for which init computes capacity 0
ZeroInputs ==
    {in \in InitInputs : MaxPerNode(in[1], in[2], in[3], in[4]) = 0}

\* C5 as stated: after an init that computed capacity 0 (nothing but such
\* inits have run when no pool is installed), a request that passes through
\* the gate waits and is not admitted.
C5_ZeroCapacityBlocks ==
    [][\A r \in Requests :
         (Entering(r) /\ nInits > 0 /\ t.requestsPool = Nil) =>
             (req'[r].pc = "Select" /\ req'[r].handlerCalls = 0)]_vars

\* C5 amended: an init that computes capacity 0 installs nothing and leaves
\* the pool, or its absence, as it was, so no pool of capacity 0 exists; a
\* request that then passes through the gate has the handler invoked
\* directly when no pool is installed and otherwise contends on the pool
\* installed earlier, whose capacity is positive.
C5_ZeroCapacityInstallsNothing ==
    [][/\ (t'.requestsPool # t.requestsPool \/ chans' # chans) =>
            \A in \in ZeroInputs : ~InitBegin(in[1], in[2], in[3], in[4])
       /\ \A ch \in 1..Len(chans') : chans'[ch].cap > 0
       /\ \A r \in Requests :
            Entering(r) =>
                IF t.requestsPool = Nil
                THEN req'[r].pc = "Running" /\ req'[r].handlerCalls = 1
                ELSE /\ req'[r].pc = "Select"
                     /\ req'[r].pool = t.requestsPool
                     /\ Cap(req'[r].pool) > 0]_vars

\* an init has completed, no pool is installed (so the capacity it computed
\* was 0), and a handler is running that the gate invoked directly
C5_Witness ==
    /\ nInits > 0
    /\ mu = "free"
    /\ t.requestsPool = Nil
    /\ t.setDriveCount > 0
    /\ \E r \in Requests :
        req[r].pc = "Running" /\ req[r].pool = Nil /\ req[r].handlerCalls = 1

\* the positions of a request that lost the race for a token
Lost == {"TimerCase", "TimedOut", "CtxCase", "Cancelled"}

\* the step gives request r a token
Admitting(r) == req[r].pc # "Admitted" /\ req'[r].pc = "Admitted"

\* C6 as stated: a request whose context is already cancelled, or whose
\* timer has already fired, at the moment it gets a token is not admitted.
C6_NotAdmittedAfterCancelOrTimeout ==
    [][\A r \in Requests :
         (req[r].pc \in {"Select", "Blocked"}
          /\ (req[r].ctxDone \/ req[r].timerFired)) =>
             ~Admitting(r)]_vars

\* C6 amended: a request is admitted only by the send case of the select:
\* either it executes the select while its pool has a free slot (the select
\* takes any ready case, so this may happen with the context already
\* cancelled or the timer already fired), or it is parked with its timer
\* not fired and its context not cancelled and a release hands it the
\* slot.  A parked request never has its timer fired or its context
\* cancelled, and a request that took the timer or the cancellation case
\* stays on that path and never has the handler invoked.
C6_AdmittedOnlyBySend ==
    [][\A r \in Requests :
         /\ Admitting(r) =>
              \/ req[r].pc = "Select" /\ ChanLen(req[r].pool) < Cap(req[r].pool)
              \/ /\ req[r].pc = "Blocked"
                 /\ ~req[r].ctxDone /\ ~req[r].timerFired
                 /\ ChanLen(req[r].pool) = Cap(req[r].pool)
                 /\ \E q \in Requests :
                      /\ req[q].pc = "Running" /\ req'[q].pc = "Released"
                      /\ req[q].pool = req[r].pool
         /\ req'[r].pc = "Blocked" =>
              ~req'[r].ctxDone /\ ~req'[r].timerFired
         /\ req[r].pc \in Lost =>
              req'[r].pc \in Lost /\ req'[r].handlerCalls = 0]_vars

\* a request was admitted although its context was already cancelled, and
\* another one, cancelled while parked, was not admitted when the slot
\* became free
C6_Witness ==
    \E r, q \in Gated :
        /\ req[r].ctxDone /\ req[r].handlerCalls = 1 /\ req[r].pc = "Released"
        /\ req[q].pc = "Cancelled" /\ req[q].pool = req[r].pool
        /\ ChanLen(req[q].pool) < Cap(req[q].pool)

\* C7: a request that ends TimedOut has exactly one error response written
\* and no handler invocation, acquired and released no token, and the step
\* that ends it changes no channel and no other request.
C7_TimedOutWritesOnce ==
    [][\A r \in Requests :
         req'[r].pc = "TimedOut" =>
             /\ req'[r].errWrites = 1
             /\ req'[r].handlerCalls = 0
             /\ req'[r].acquired = 0 /\ req'[r].released = 0
             /\ req[r].pc # "TimedOut" =>
                  /\ chans' = chans
                  /\ \A q \in Requests \ {r} : req'[q] = req[q]]_vars

\* a request timed out while the handler holding the only token of its
\* pool is still running
C7_Witness ==
    \E r, q \in Gated :
        /\ req[r].pc = "TimedOut"
        /\ req[q].pc = "Running" /\ req[q].pool = req[r].pool
        /\ ChanLen(req[r].pool) = Cap(req[r].pool)

\* C8: a request that ends Cancelled has no response written and no handler
\* invocation and acquired and released no token, and no step that moves a
\* request along the path to Cancelled changes the tokens of any channel.
C8_CancelledChangesNothing ==
    [][\A r \in Requests :
         /\ req'[r].pc = "Cancelled" =>
              /\ req'[r].errWrites = 0
              /\ req'[r].handlerCalls = 0
              /\ req'[r].acquired = 0 /\ req'[r].released = 0
         /\ (req'[r] # req[r]
             /\ req'[r].pc \in {"Select", "Blocked", "CtxCase", "Cancelled"}) =>
                chans' = chans]_vars

\* a request was cancelled while the handler holding the only token of its
\* pool is still running
C8_Witness ==
    \E r, q \in Gated :
        /\ req[r].pc = "Cancelled"
        /\ req[q].pc = "Running" /\ req[q].pool = req[r].pool
        /\ ChanLen(req[r].pool) = Cap(req[r].pool)

\* C9: every request that entered the gate eventually finishes (from some
\* point on every request either never reached the gate or is finished); a
\* request that lost the race never waits again; a parked request's timer
\* has not fired.
C9_EveryRequestFinishes ==
    /\ <>[](\A r \in Requests : req[r].pc \in Terminal \cup {"Idle"})
    /\ [][\A r \in Requests :
            req[r].pc \in Lost => req'[r].pc \notin {"Select", "Blocked"}]_vars
    /\ [](\A r \in Requests : req[r].pc = "Blocked" => ~req[r].timerFired)

\* every request is finished, one of them timed out on a pool whose only
\* token another one held
C9_Witness ==
    /\ \A r \in Requests : req[r].pc \in Terminal
    /\ \E r, q \in Gated :
        /\ req[r].pc = "TimedOut" /\ req[q].pc = "Released"
        /\ req[q].pool = req[r].pool /\ Cap(req[r].pool) = 1

\* C10: a request that found no pool installed has the handler invoked
\* directly: it is running or has returned, never waited, timed out or was
\* cancelled by the gate, and acquired and released no token.
C10_NoPoolInvokesDirectly ==
    \A r \in Requests :
        (req[r].pc # "Idle" /\ req[r].pool = Nil) =>
            /\ req[r].pc \in {"Running", "Returned"}
            /\ req[r].handlerCalls = 1
            /\ req[r].errWrites = 0
            /\ req[r].acquired = 0 /\ req[r].released = 0

\* all the requests run their handler at once, none through a pool
C10_Witness ==
    \A r \in Requests : req[r].pc = "Running" /\ req[r].pool = Nil

(***************************************************************************)
(* C11: a request's snapshot is a pair the store held between init calls   *)
(***************************************************************************)
\* C11: the (pool, deadline) pair a request obtained from getRequestsPool
\* is a pair that apiConfig held while no init call was in progress (before
\* the first call or after some call finished): never the pool one call
\* left paired with the deadline another call left.
C11_SnapshotIsStoredPair ==
    \A r \in Requests :
        req[r].pc # "Idle" => <<req[r].pool, req[r].deadline>> \in stored

\* two requests hold the same pool with the deadlines of two init calls,
\* the second of which kept the pool
C11_Witness ==
    \E r, q \in Requests :
        /\ req[r].pc = "Select" /\ req[q].pc = "Select"
        /\ req[r].pool = req[q].pool
        /\ req[r].deadline # req[q].deadline
        /\ nInits = 2

(***************************************************************************)
(* C12: a failed memory probe is absorbed                                  *)
(***************************************************************************)
\* the latest init call had no configured maximum
NoMaximum == nInits > 0 /\ call.cfg.RequestsMax <= 0

\* every field of the store holds what the latest init call was given
AllFieldsUpdated ==
    /\ t.clusterDeadline = call.cfg.ClusterDeadline
    /\ t.corsAllowOrigins = call.cfg.CorsAllowOrigin
    /\ t.setDriveCount = call.setDriveCount
    /\ t.requestsDeadline = call.cfg.RequestsDeadline
    /\ t.listQuorum = call.cfg.ListQuorum
    /\ t.extendListLife = call.cfg.ExtendListLife

\* C12: with no configured maximum and a failed memory probe init still
\* runs to its end and updates every field, and the capacity it computes is
\* floor(16 GiB / (setDriveCount * (writeBlockSize + readBlockSize)
\* + 2 * blockSizeV1)): the formula it applies to the probed total when the
\* probe succeeds.  The installed pool has at least that capacity.
C12_ProbeFailureUses16GiB ==
    LET perRequest ==
            call.setDriveCount * (writeBlockSize + readBlockSize)
                + 2 * blockSizeV1
        total == IF call.stats.err THEN 16384 ELSE call.stats.TotalRAM
    IN  /\ NoMaximum =>
              /\ call.apiRequestsMaxPerNode = total \div perRequest
              /\ Cap(t.requestsPool) >= total \div perRequest
        /\ mu = "W" => ENABLED RecordedInitEnd
        /\ (NoMaximum /\ call.stats.err /\ mu = "free") => AllFieldsUpdated

\* an init call with no maximum and a failed probe has finished and
\* installed a pool of the fallback capacity
C12_Witness ==
    /\ NoMaximum /\ call.stats.err /\ mu = "free"
    /\ Cap(t.requestsPool) = call.apiRequestsMaxPerNode
    /\ call.apiRequestsMaxPerNode > 0
    /\ AllFieldsUpdated

(***************************************************************************)
(* C13: an explicit maximum is divided across the nodes                    *)
(***************************************************************************)
\* C13: when the latest init call was given an explicit positive maximum
\* M, the capacity it computed is M when the topology reports at most one
\* node and floor(M / n) when it reports n > 1 nodes, whatever the memory
\* probe would have returned; the installed pool has at least that capacity.
C13_ExplicitMaximumPerNode ==
    (nInits > 0 /\ call.cfg.RequestsMax > 0) =>
        LET M == call.cfg.RequestsMax
            n == call.hosts
            perNode == IF n > 1 THEN M \div n ELSE M
        IN  /\ call.apiRequestsMaxPerNode = perNode
            /\ Cap(t.requestsPool) >= perNode
            /\ \A stats \in WideStatsVals :
                   MaxPerNode(call.cfg, call.setDriveCount, n, stats) = perNode

\* an init call with maximum 3 on two nodes installed a pool of capacity 1,
\* with a memory probe that would have given another capacity
C13_Witness ==
    /\ nInits = 1 /\ mu = "free"
    /\ call.cfg.RequestsMax = 3 /\ call.hosts = 2
    /\ ~call.stats.err
    /\ Cap(t.requestsPool) = 1

(***************************************************************************)
(* C14: getClusterDeadline defaults a zero deadline to 10 seconds          *)
(***************************************************************************)
\* the step is a call of accessor op that returned
Returned(op) == ret'.op = op /\ ~ret'.written /\ ret' # ret

\* C14: getClusterDeadline returns 10 seconds when the cluster deadline the
\* latest init call stored is zero (or no call stored one yet), and the
\* stored value itself when it is not zero.
C14_ClusterDeadlineDefault ==
    [][Returned("getClusterDeadline") =>
          /\ t.clusterDeadline = call.cfg.ClusterDeadline
          /\ ret'.val = IF call.cfg.ClusterDeadline = 0 THEN 10
                        ELSE call.cfg.ClusterDeadline]_vars

\* after an init call that stored a zero cluster deadline over a non-zero
\* one, getClusterDeadline returned 10
C14_Witness ==
    /\ nInits = 2 /\ mu = "free"
    /\ t.clusterDeadline = 0
    /\ ret.op = "getClusterDeadline" /\ ret.val = 10

(***************************************************************************)
(* C15: getCorsAllowOrigins returns a copy                                 *)
(***************************************************************************)
\* C15: getCorsAllowOrigins returns the origins the latest init call was
\* given, in their order, in storage of its own; a write to a returned
\* sequence leaves the store as it is, so later calls return the
\* configured origins still.
C15_CorsIsACopy ==
    [][/\ Returned("getCorsAllowOrigins") =>
              /\ ret'.val = call.cfg.CorsAllowOrigin
              /\ ret'.array # nInits
       /\ (ret'.written /\ ret' # ret) => t' = t]_vars

\* the caller has overwritten the first origin of the sequence it was
\* returned and the store still holds the configured origins
C15_Witness ==
    /\ ret.op = "getCorsAllowOrigins" /\ ret.written
    /\ ret.val = <<"x", "b">>
    /\ t.corsAllowOrigins = <<"a", "b">>
    /\ call.cfg.CorsAllowOrigin = <<"a", "b">>

(***************************************************************************)
(* C16: an init call that does not grow the pool keeps it                  *)
(***************************************************************************)
\* C16: an init call that computes a capacity not above the capacity of
\* the installed pool leaves t.requestsPool and the tokens in every channel
\* as they are, stores clusterDeadline, corsAllowOrigins and setDriveCount
\* from its arguments and, before it unlocks, requestsDeadline, listQuorum
\* and extendListLife; a request that reaches the gate while that pool is
\* installed takes the pool and the deadline stored last and goes to the
\* select.
C16_KeepsPoolOverwritesFields ==
    [][/\ (mu = "free" /\ mu' = "W" /\ t.requestsPool # Nil) =>
              \A in \in LoadInputs :
                  (/\ InitBegin(in[1], in[2], in[3], in[4])
                   /\ MaxPerNode(in[1], in[2], in[3], in[4])
                          <= Cap(t.requestsPool)) =>
                      /\ t'.requestsPool = t.requestsPool
                      /\ chans' = chans
                      /\ t'.clusterDeadline = in[1].ClusterDeadline
                      /\ t'.corsAllowOrigins = in[1].CorsAllowOrigin
                      /\ t'.setDriveCount = in[2]
                      /\ initCfg' = Rest(in[1])
       /\ (mu = "W" /\ mu' = "free") =>
              /\ t'.requestsPool = t.requestsPool
              /\ chans' = chans
              /\ t'.requestsDeadline = initCfg.RequestsDeadline
              /\ t'.listQuorum = initCfg.ListQuorum
              /\ t'.extendListLife = initCfg.ExtendListLife
       /\ \A r \in Requests :
              (Entering(r) /\ t.requestsPool # Nil) =>
                  /\ req'[r].pc = "Select"
                  /\ req'[r].pool = t.requestsPool
                  /\ req'[r].deadline = t.requestsDeadline]_vars

\* a handler holds the only token of the first pool; a second init call has
\* kept that pool and stored other values, and a request that arrived after
\* it waits on the same pool with the new deadline
C16_Witness ==
    \E r, q \in Requests :
        /\ nInits = 2 /\ mu = "free" /\ Len(chans) = 1
        /\ t.requestsPool = 1 /\ ChanLen(1) = 1
        /\ req[r].pc = "Running" /\ req[r].pool = 1
        /\ req[q].pc = "Blocked" /\ req[q].pool = 1
        /\ req[q].deadline = t.requestsDeadline
        /\ req[q].deadline # req[r].deadline

(***************************************************************************)
(* C17: a full pool turns a request away when its timer fires              *)
(***************************************************************************)
\* the request was admitted: it holds or held a token
WasAdmitted(r) == req[r].pc \in {"Admitted", "Running", "Released"}

\* C17 as stated: with a pool that is not reconfigured, an uncancelled
\* request whose pool had every token held from its snapshot until its
\* deadline timer fired is not admitted and its handler is not invoked.
C17_FullUntilTimerNeverAdmitted ==
    \A r \in Requests :
        (/\ held[r] \in {"firedInSelect", "freedInSelect", "firedParked"}
         /\ ~req[r].ctxDone) =>
            ~WasAdmitted(r) /\ req[r].handlerCalls = 0

\* C17, amended: with a pool that is not reconfigured, a request holds a
\* token only while fewer than N other requests hold one; a request that is
\* parked in its select when its timer fires with all N tokens held takes
\* the timer case; an uncancelled request whose timer fired before it
\* executed its select, with all N tokens held ever since, has not been
\* admitted.  In both cases its handler is not invoked.
C17_FullAtSelectNeverAdmitted ==
    /\ Len(chans) <= 1
    /\ \A r \in Requests :
           /\ (req[r].pc \in {"Admitted", "Running"} /\ req[r].pool # Nil) =>
                  Cardinality({q \in Requests \ {r} :
                                  /\ req[q].pool = req[r].pool
                                  /\ req[q].pc \in {"Admitted", "Running"}})
                      < Cap(req[r].pool)
           /\ held[r] = "firedParked" =>
                  /\ req[r].pc \in {"TimerCase", "TimedOut"}
                  /\ req[r].handlerCalls = 0
           /\ (held[r] = "firedInSelect" /\ ~req[r].ctxDone) =>
                  /\ req[r].pc \in {"Select", "TimerCase", "TimedOut"}
                  /\ req[r].handlerCalls = 0

\* one handler holds the token of a pool of capacity 1, and a request that
\* was parked on that pool when its timer fired has been answered with the
\* error: one handler invocation in all
C17_Witness ==
    \E r, q \in Requests :
        /\ held[r] = "firedParked" /\ req[r].pc = "TimedOut"
        /\ ~req[r].ctxDone /\ req[r].errWrites = 1
        /\ req[q].pc = "Running" /\ req[q].pool = req[r].pool
        /\ Cap(req[r].pool) = 1
        /\ req[q].handlerCalls + req[r].handlerCalls = 1

(***************************************************************************)
(* C18: a request contends on the pool of its snapshot                     *)
(***************************************************************************)
\* C18: the pool and the deadline a request took at the gate stay its own
\* whatever init installs later; the request is admitted only by putting a
\* token into that pool, into a slot that is free or that a handler
\* admitted through the same pool frees in the same step, and no other pool
\* changes; a request that reaches the gate takes the pool installed then.
C18_ContendsOnSnapshotOnly ==
    [][\A r \in Requests :
          /\ req[r].pc # "Idle" =>
                 /\ req'[r].pool = req[r].pool
                 /\ req'[r].deadline = req[r].deadline
          /\ Admitting(r) =>
                 LET p == req[r].pool
                 IN  /\ p # Nil
                     /\ \/ /\ ChanLen(p) < Cap(p)
                           /\ chans' = [chans EXCEPT ![p].len = @ + 1]
                        \/ /\ chans' = chans
                           /\ \E q \in Requests :
                                  /\ req[q].pool = p
                                  /\ req[q].pc = "Running"
                                  /\ req'[q].pc = "Released"
          /\ Entering(r) => req'[r].pool = t.requestsPool]_vars

\* a request is parked on the full pool of its snapshot while the larger
\* pool that init installed since has room
C18_Witness ==
    \E r, q \in Requests :
        /\ req[r].pc = "Blocked" /\ req[r].pool = 1
        /\ req[q].pc = "Running" /\ req[q].pool = 1
        /\ ChanLen(1) = Cap(1)
        /\ t.requestsPool = 2 /\ mu = "free"
        /\ Cap(2) > Cap(1) /\ ChanLen(2) < Cap(2)

(***************************************************************************)
(* C19: the tokens of each pool instance are the tokens of its holders     *)
(***************************************************************************)
\* the requests that hold a token of ch: admitted through ch, their handler
\* about to be called (lines 145-147) or running
Holders(ch) ==
    {r \in Requests : req[r].pool = ch /\ req[r].pc \in {"Admitted", "Running"}}

\* C19 as stated: in every pool instance ever made the number of tokens is
\* the number of handlers running that were admitted through it, and lies
\* between 0 and the capacity.
C19_TokensEqualRunningHandlers ==
    \A ch \in 1..Len(chans) :
        /\ ChanLen(ch) = Cardinality(RunningVia(ch))
        /\ ChanLen(ch) \in 0..Cap(ch)

\* C19, amended: in every pool instance ever made the number of tokens is
\* the number of requests admitted through it that have not released yet
\* (their handler running, or about to be called), and lies between 0 and
\* the capacity; the deferred receive of a request is on the instance it
\* sent to and finds a token there, so it does not block.
C19_TokensEqualHolders ==
    /\ \A ch \in 1..Len(chans) :
           /\ ChanLen(ch) = Cardinality(Holders(ch))
           /\ Cardinality(RunningVia(ch)) <= ChanLen(ch)
           /\ ChanLen(ch) \in 0..Cap(ch)
    /\ \A r \in RunningReqs :
           req[r].pool # Nil =>
               /\ ReleaseChan(req[r]) = req[r].pool
               /\ ChanLen(ReleaseChan(req[r])) > 0

\* two pool instances, each with the token of the handler admitted
\* through it
C19_Witness ==
    /\ Len(chans) = 2
    /\ \E r, q \in Requests :
           /\ req[r].pc = "Running" /\ req[r].pool = 1
           /\ req[q].pc = "Running" /\ req[q].pool = 2
    /\ ChanLen(1) = 1 /\ ChanLen(2) = 1

(***************************************************************************)
(* C20: an installed pool is never removed                                 *)
(***************************************************************************)
\* C20: once init has made a pool, a pool is installed in every later
\* state, whatever the later init calls compute: getRequestsPool returns a
\* pool, and every request that reaches the gate after a request that got
\* a pool gets a pool too.
C20_PoolStaysInstalled ==
    /\ Len(chans) > 0 =>
           /\ t.requestsPool \in 1..Len(chans)
           /\ getRequestsPool[1] # Nil
    /\ \A r, q \in Requests :
           (r < q /\ req[q].pc # "Idle" /\ req[r].pool # Nil) =>
               req[q].pool # Nil

\* the latest of two init calls computed capacity 0 and the pool of the
\* first is still installed and handed to a request
C20_Witness ==
    /\ nInits = 2 /\ mu = "free" /\ Len(chans) = 1
    /\ call.apiRequestsMaxPerNode = 0
    /\ t.requestsPool = 1
    /\ req[1].pc = "Select" /\ req[1].pool = 1
    /\ req[1].deadline = call.cfg.RequestsDeadline
    /\ \E p \in stored : p[1] = 1 /\ p[2] # req[1].deadline

====
